---- MODULE Spec2Model ----
(***************************************************************************)
(* A model of canvass.py: the conversion of a plain-text election canvass  *)
(* into one table per contest.  Text is a sequence of one-character        *)
(* strings, so that splitting, trimming, pattern matching and integer      *)
(* parsing are computed character by character as the Python code does.    *)
(***************************************************************************)
EXTENDS Integers, Sequences, FiniteSets, TLC

VARIABLES
    doc,                  \* the structured sample the report text was rendered from
    report,               \* the text of the file at import_filepath
    contest_number,       \* argument of gen_election_table
    export_filepath,      \* argument of gen_election_table (None: no export)
    pc,                   \* position of the running call
    contests,             \* display_contests: the segmenter's output
    k,                    \* loop counter of display_contests / verify_precincts
    titles_dict,          \* display_contests: the mapping being built
    contest_title,        \* display_contests: the title of the last block read
    contest,              \* verify_precincts: the block, split into lines
    found_first_precinct, \* verify_precincts: loop flag
    contest_cleaned,      \* verify_precincts: the region (Unbound before assigned)
    result,               \* what the call returned or raised
    export_file           \* the rows written to export_filepath (None: no file)

vars == <<doc, report, contest_number, export_filepath, pc, contests, k,
          titles_dict, contest_title, contest, found_first_precinct,
          contest_cleaned, result, export_file>>

(***************************************************************************)
(* Bounds of the model.                                                    *)
(***************************************************************************)
MaxReportLen == 5
MaxContests == 3
MaxRows == 2
MaxRoster == 3
MaxLines == 3

(***************************************************************************)
(* Python values.                                                          *)
(***************************************************************************)
\* Python's None: a one-element tuple no text equals (texts hold one-character strings).
None == <<"None">>

\* A name that has not been assigned yet.
Unbound == <<"Unbound">>

Returned(v) == [status |-> "returned", val |-> v]

Raised(e) == [status |-> "raised", val |-> e]

\* A call that never returns.
Hangs == [status |-> "hangs", val |-> None]

(***************************************************************************)
(* Characters.                                                             *)
(***************************************************************************)
LowerChars == <<"a", "b", "c", "d", "e", "f", "g", "h", "i", "j", "k", "l", "m",
                "n", "o", "p", "q", "r", "s", "t", "u", "v", "w", "x", "y", "z">>

UpperChars == <<"A", "B", "C", "D", "E", "F", "G", "H", "I", "J", "K", "L", "M",
                "N", "O", "P", "Q", "R", "S", "T", "U", "V", "W", "X", "Y", "Z">>

DigitChars == <<"0", "1", "2", "3", "4", "5", "6", "7", "8", "9">>

Range(s) == {s[i] : i \in DOMAIN s}

Spaces == {" ", "\t", "\n", "\r"}

Digits == Range(DigitChars)

\* str.isspace for the characters a text file line can hold, and regex \s.
IsSpace(c) == c \in Spaces

\* regex \d
IsDigit(c) == c \in Digits

\* regex [a-zA-z]: the range A-z also spans the characters between Z and a
\* (the grave accent among them has no TLA+ string and is not in any sample text).
LettersAz == Range(LowerChars) \cup Range(UpperChars) \cup {"[", "\\", "]", "^", "_"}

IsLetterAz(c) == c \in LettersAz

\* the character class of a candidate name: letters (A-z), whitespace, and / ( ) . ' -
NameChars == LettersAz \cup Spaces \cup {"/", "(", ")", ".", "'", "-"}

IsNameChar(c) == c \in NameChars

IndexIn(s, c) == CHOOSE i \in DOMAIN s : s[i] = c

LowerSet == Range(LowerChars)

UpperSet == Range(UpperChars)

UpperChar(c) == IF c \in LowerSet THEN UpperChars[IndexIn(LowerChars, c)] ELSE c

LowerChar(c) == IF c \in UpperSet THEN LowerChars[IndexIn(UpperChars, c)] ELSE c

\* str.upper
upper(s) == [i \in DOMAIN s |-> UpperChar(s[i])]

\* str.lower
lower(s) == [i \in DOMAIN s |-> LowerChar(s[i])]

\* sub in s
Contains(sub, s) ==
    \E i \in 1..(Len(s) - Len(sub) + 1) : \A j \in DOMAIN sub : s[i + j - 1] = sub[j]

\* s[i:] with i counted from 1
Tail_from(s, i) == SubSeq(s, i, Len(s))

\* str.rstrip
rstrip(s) ==
    LET keep == {i \in DOMAIN s : ~IsSpace(s[i])}
    IN  IF keep = {} THEN <<>>
        ELSE SubSeq(s, 1, CHOOSE i \in keep : \A j \in keep : j <= i)

\* str.lstrip
lstrip(s) ==
    LET keep == {i \in DOMAIN s : ~IsSpace(s[i])}
    IN  IF keep = {} THEN <<>>
        ELSE SubSeq(s, CHOOSE i \in keep : \A j \in keep : i <= j, Len(s))

Min(S) == CHOOSE x \in S : \A y \in S : x <= y

\* The length of the longest prefix of s[i..] whose characters are all in class cls.
RunLen(cls, s, i) ==
    IF i > Len(s) \/ s[i] \notin cls THEN 0
    ELSE Min({j \in i..(Len(s) + 1) : j = Len(s) + 1 \/ s[j] \notin cls}) - i

RECURSIVE Concat(_)
Concat(ss) == IF ss = <<>> THEN <<>> ELSE Head(ss) \o Concat(Tail(ss))

(***************************************************************************)
(* The regular expressions of the program.  MatchLen(pat, s, i) is the     *)
(* length of the (greedy) match of pat that starts at position i of s,     *)
(* 0 when there is none; no pattern of the program matches the empty text. *)
(***************************************************************************)
AllDigits(s, i, n) == i + n - 1 <= Len(s) /\ \A j \in i..(i + n - 1) : IsDigit(s[j])

\* Whether sub occurs in s at position i.
OccursAt(sub, s, i) ==
    /\ i + Len(sub) - 1 <= Len(s)
    /\ \A j \in DOMAIN sub : s[i + j - 1] = sub[j]

MatchLen(pat, s, i) ==
    CASE pat = "={2,}" ->
           LET n == RunLen({"="}, s, i) IN IF n >= 2 THEN n ELSE 0
      [] pat = "\\s{2,}" ->
           LET n == RunLen(Spaces, s, i) IN IF n >= 2 THEN n ELSE 0
      [] pat = "\\d{4}\\s" ->
           IF AllDigits(s, i, 4) /\ i + 4 <= Len(s) /\ IsSpace(s[i + 4]) THEN 5 ELSE 0
      [] pat = "\\d{4}" ->
           IF AllDigits(s, i, 4) THEN 4 ELSE 0
      [] pat = "\\d{2}\\s=\\s[a-zA-z/\\s().'\\-]+" ->
           IF /\ AllDigits(s, i, 2)
              /\ i + 4 <= Len(s)
              /\ IsSpace(s[i + 2])
              /\ s[i + 3] = "="
              /\ IsSpace(s[i + 4])
              /\ RunLen(NameChars, s, i + 5) >= 1
           THEN 5 + RunLen(NameChars, s, i + 5)
           ELSE 0

\* The first position from i on where pat matches, 0 when there is none.
NextMatch(pat, s, i) ==
    LET starts == {j \in i..Len(s) : MatchLen(pat, s, j) > 0}
    IN  IF starts = {} THEN 0 ELSE Min(starts)

\* re.split(pat, s): the pieces between the non-overlapping matches, leftmost
\* first; i is where the current piece starts, j the next match (0: none) and n
\* its length.
RECURSIVE re_split_from(_, _, _)
re_split_at(pat, s, i, j, n) ==
    IF j = 0 THEN <<SubSeq(s, i, Len(s))>>
    ELSE <<SubSeq(s, i, j - 1)>> \o re_split_from(pat, s, j + n)

re_split_match(pat, s, i, j) == re_split_at(pat, s, i, j, MatchLen(pat, s, j))

re_split_from(pat, s, i) == re_split_match(pat, s, i, NextMatch(pat, s, i))

re_split(pat, s) == re_split_from(pat, s, 1)

\* re.findall(pat, s): the non-overlapping matches, leftmost first.
RECURSIVE re_findall_from(_, _, _)
re_findall_at(pat, s, j, n) ==
    IF j = 0 THEN <<>>
    ELSE <<SubSeq(s, j, j + n - 1)>> \o re_findall_from(pat, s, j + n)

re_findall_match(pat, s, j) == re_findall_at(pat, s, j, MatchLen(pat, s, j))

re_findall_from(pat, s, i) == re_findall_match(pat, s, NextMatch(pat, s, i))

re_findall(pat, s) == re_findall_from(pat, s, 1)

\* str.split(sep) for a non-empty separator: the pieces between its occurrences;
\* i is where the current piece starts, j the next occurrence (0: none).
RECURSIVE str_split_from(_, _, _)
str_split_at(sep, s, i, j) ==
    IF j = 0 THEN <<SubSeq(s, i, Len(s))>>
    ELSE <<SubSeq(s, i, j - 1)>> \o str_split_from(sep, s, j + Len(sep))

NextOccurrence(sep, s, i) ==
    LET starts == {j \in i..(Len(s) - Len(sep) + 1) : OccursAt(sep, s, j)}
    IN  IF starts = {} THEN 0 ELSE Min(starts)

str_split_from(sep, s, i) == str_split_at(sep, s, i, NextOccurrence(sep, s, i))

str_split(sep, s) == str_split_from(sep, s, 1)

\* Python's list[:-1] when the last element is the empty text.
DropEmptyLast(parts) ==
    IF parts[Len(parts)] = <<>> THEN SubSeq(parts, 1, Len(parts) - 1) ELSE parts

\* str.splitlines: the lines without their line breaks; a final line break opens no line.
splitlines(s) == DropEmptyLast(str_split(<<"\n">>, s))

(***************************************************************************)
(* Integers and their decimal text.                                        *)
(***************************************************************************)
DigitValue(c) == IndexIn(DigitChars, c) - 1

\* str(n) of an integer
RECURSIVE NatStr(_)
NatStr(n) == IF n < 10 THEN <<DigitChars[n + 1]>>
             ELSE NatStr(n \div 10) \o <<DigitChars[(n % 10) + 1]>>

str(n) == IF n < 0 THEN <<"-">> \o NatStr(-n) ELSE NatStr(n)

RECURSIVE DigitsValue(_, _)
DigitsValue(s, acc) ==
    IF s = <<>> THEN acc
    ELSE DigitsValue(Tail(s), IF s[1] = "_" THEN acc ELSE 10 * acc + DigitValue(s[1]))

\* The digits of an integer literal: digits that single underscores may group.
IsDigitGroups(body) ==
    /\ body # <<>>
    /\ \A i \in DOMAIN body : IsDigit(body[i]) \/ body[i] = "_"
    /\ body[1] # "_" /\ body[Len(body)] # "_"
    /\ \A i \in 1..(Len(body) - 1) : ~(body[i] = "_" /\ body[i + 1] = "_")

int_digits(negative, body) ==
    IF ~IsDigitGroups(body) THEN Raised("ValueError")
    ELSE Returned(IF negative THEN 0 - DigitsValue(body, 0) ELSE DigitsValue(body, 0))

int_trimmed(t) ==
    IF t # <<>> /\ t[1] \in {"+", "-"} THEN int_digits(t[1] = "-", Tail(t))
    ELSE int_digits(FALSE, t)

\* int(s): surrounding whitespace is dropped, one sign is allowed, and the digits
\* may be grouped by single underscores; anything else is a ValueError.
int(s) == int_trimmed(lstrip(rstrip(s)))

(***************************************************************************)
(* read_canvass_from_text: the segmenter.                                  *)
(***************************************************************************)
\* The segmenter without the removal of an empty final block.
read_canvass_keep_last(text) == re_split("={2,}", text)

\* re.split at the runs of two or more "=", an empty final block deleted.
read_canvass_from_text(text) == DropEmptyLast(re_split("={2,}", text))

(***************************************************************************)
(* grab_contest_title: the title extractor.                                *)
(***************************************************************************)
TitleCeiling == 10000

MarkerText == <<"V", "O", "T", "E", "S">>

InstructionText == <<"v", "o", "t", "e", " ", "f", "o", "r", " ", "n", "o", "t", " ",
                     "m", "o", "r", "e">>

\* contest[n] of a Python list, n counted from 0 and not negative.
HasIndex(list, n) == n + 1 <= Len(list)

\* The while loop; lines is the block split into lines, n the loop counter k.
RECURSIVE title_scan(_, _)
title_scan(lines, n) ==
    IF ~(n < TitleCeiling) THEN Returned(None)
    ELSE IF ~HasIndex(lines, n) THEN Raised("IndexError")
    ELSE IF Contains(MarkerText, upper(lines[n + 1]))
         THEN IF ~HasIndex(lines, n + 1) THEN Raised("IndexError")
              ELSE IF ~HasIndex(lines, n + 2) THEN Raised("IndexError")
              ELSE IF Contains(InstructionText, lower(lines[n + 3]))
                   THEN Returned(rstrip(lines[n + 2]))
                   ELSE Returned(rstrip(lines[n + 2]) \o <<" ">>
                                 \o rstrip(lstrip(lines[n + 3])))
         ELSE title_scan(lines, n + 1)

grab_contest_title(block) == title_scan(splitlines(block), 0)

\* dict[key] = n of a Python dict
DictSet(dict, key, n) ==
    [x \in DOMAIN dict \cup {key} |-> IF x = key THEN n ELSE dict[x]]

EmptyDict == [x \in {} |-> 0]

(***************************************************************************)
(* grab_candidates: the candidate extractor.                               *)
(***************************************************************************)
CandidatePattern == "\\d{2}\\s=\\s[a-zA-z/\\s().'\\-]+"

\* The for loop over the matches, from match number n on; candidates is the
\* mapping built so far, candidate the match split at " = ", candidate_index the
\* integer read from its first part.
RECURSIVE candidates_from(_, _, _)
candidate_entry(matches, n, candidates, candidate, candidate_index) ==
    IF candidate_index.status = "raised" THEN candidate_index
    ELSE IF ~HasIndex(candidate, 1) THEN Raised("IndexError")
    ELSE candidates_from(matches, n + 1,
                         DictSet(candidates, candidate_index.val, candidate[2]))

candidate_split(matches, n, candidates, candidate) ==
    candidate_entry(matches, n, candidates, candidate, int(candidate[1]))

candidates_from(matches, n, candidates) ==
    IF n > Len(matches) THEN Returned(candidates)
    ELSE candidate_split(matches, n, candidates,
                         str_split(<<" ", "=", " ">>, rstrip(matches[n])))

grab_candidates(block) ==
    candidates_from(re_findall(CandidatePattern, block), 1, EmptyDict)

(***************************************************************************)
(* verify_precincts: the precinct locator.                                 *)
(***************************************************************************)
PrecinctCeiling == 10000

\* Whether the pattern ^\d{4}\s\d{0,4}\s?[a-zA-z]+ matches the line: four digits,
\* a whitespace, up to four digits, an optional whitespace, a letter.
PrecinctShape(line) ==
    /\ AllDigits(line, 1, 4)
    /\ Len(line) >= 5
    /\ IsSpace(line[5])
    /\ \E d \in 0..4, w \in 0..1 :
          /\ AllDigits(line, 6, d)
          /\ w = 1 => (6 + d <= Len(line) /\ IsSpace(line[6 + d]))
          /\ 6 + d + w <= Len(line)
          /\ IsLetterAz(line[6 + d + w])

\* The while loop run to its end; lines is the block split into lines, n the loop
\* counter k.  At the ceiling the loop assigns the empty region and goes round
\* again without end.
RECURSIVE precinct_scan(_, _)
precinct_scan(lines, n) ==
    IF ~HasIndex(lines, n) THEN Raised("IndexError")
    ELSE IF PrecinctShape(lines[n + 1]) THEN Returned(Tail_from(lines, n + 1))
    ELSE IF n < PrecinctCeiling THEN precinct_scan(lines, n + 1)
    ELSE Hangs

verify_precincts(block) == precinct_scan(splitlines(block), 0)

(***************************************************************************)
(* grab_precincts: the precinct row parser.                                *)
(***************************************************************************)
\* The inner for loop with a vote field that is no integer counted as zero.
parse_votes_or_zero(fields) ==
    Returned([n \in 1..(Len(fields) - 1) |->
                 IF int(fields[n + 1]).status = "raised" THEN 0 ELSE int(fields[n + 1]).val])

FirstRaised(outcomes) ==
    outcomes[Min({n \in DOMAIN outcomes : outcomes[n].status = "raised"})]

Values(outcomes) == [n \in DOMAIN outcomes |-> outcomes[n].val]

\* A sequence of outcomes, each needing the ones before it: what the first
\* failing one raises, or all the values.
InOrder(outcomes) ==
    IF \E n \in DOMAIN outcomes : outcomes[n].status = "raised"
    THEN FirstRaised(outcomes)
    ELSE Returned(Values(outcomes))

\* The inner for loop: int() of every field after the first.
parse_votes(fields) == InOrder([n \in 1..(Len(fields) - 1) |-> int(fields[n + 1])])

\* A row that takes its two identifiers in the reverse order.
precinct_result_swapped(pieces, precinct_votes, precinct_ids) ==
    IF precinct_votes.status = "raised" THEN precinct_votes
    ELSE Returned(<<IF Len(precinct_ids) >= 2 THEN precinct_ids[2] ELSE None,
                    IF Len(precinct_ids) >= 1 THEN precinct_ids[1] ELSE None,
                    pieces[Len(pieces)]>> \o precinct_votes.val)

\* The row of one line: pieces is the first field split at "four digits and a
\* whitespace", its last piece the precinct name; precinct_ids are the runs of
\* four digits of the first field.
precinct_result(pieces, precinct_votes, precinct_ids) ==
    IF precinct_votes.status = "raised" THEN precinct_votes
    ELSE Returned(<<IF Len(precinct_ids) >= 1 THEN precinct_ids[1] ELSE None,
                    IF Len(precinct_ids) >= 2 THEN precinct_ids[2] ELSE None,
                    pieces[Len(pieces)]>> \o precinct_votes.val)

\* precinct is the line split at the runs of two or more whitespaces.
precinct_fields(precinct) ==
    precinct_result(re_split("\\d{4}\\s", precinct[1]), parse_votes(precinct),
                    re_findall("\\d{4}", precinct[1]))

\* The body of the outer for loop: one line of the region to one row.
precinct_row(line) == precinct_fields(re_split("\\s{2,}", line))

\* The outer for loop: the rows of the region's lines in order.
precinct_rows(region) == InOrder([n \in DOMAIN region |-> precinct_row(region[n])])

precincts_of(contest_region) ==
    IF contest_region.status # "returned" THEN contest_region
    ELSE precinct_rows(contest_region.val)

grab_precincts(block) == precincts_of(verify_precincts(block))

(***************************************************************************)
(* gen_election_table: the table builder.                                  *)
(***************************************************************************)
IdColumns == <<
    <<"P", "r", "i", "m", "a", "r", "y", " ", "p", "r", "e", "c", "i", "n", "c", "t", " ",
      "I", "D">>,
    <<"S", "e", "c", "o", "n", "d", "a", "r", "y", " ", "p", "r", "e", "c", "i", "n", "c",
      "t", " ", "I", "D">>,
    <<"P", "r", "e", "c", "i", "n", "c", "t", " ", "n", "a", "m", "e">> >>

\* The n-th smallest element of a set of integers.
NthSmallest(S, n) == CHOOSE x \in S : Cardinality({y \in S : y <= x}) = n

\* A header of the candidates that exist, in index order, skipping any gap.
build_header_skipping(candidates) ==
    Returned(IdColumns \o [n \in 1..Cardinality(DOMAIN candidates) |->
                              candidates[NthSmallest(DOMAIN candidates, n)]])

\* The header: candidates[1], ..., candidates[len(candidates)]; a missing key raises.
build_header(candidates) ==
    LET size == Cardinality(DOMAIN candidates)
    IN  IF \E n \in 1..size : n \notin DOMAIN candidates THEN Raised("KeyError")
        ELSE Returned(IdColumns \o [n \in 1..size |-> candidates[n]])

\* What csv.writer writes for one field: nothing for None, the decimal text of an
\* integer (the fields after the third of a precinct row), a text as it is.
csv_text(v) == IF v = None THEN <<>> ELSE v

csv_text_row(row) == [i \in DOMAIN row |-> csv_text(row[i])]

csv_precinct_row(row) ==
    [i \in DOMAIN row |-> IF i <= 3 THEN csv_text(row[i]) ELSE str(row[i])]

\* The assertion that lets every number below len(contests) pass.
number_accepted(number, blocks) == number < Len(blocks)

\* contests[number] of a Python list: a negative number counts from the end.
list_index(list, number) ==
    IF number >= 0 THEN (IF number < Len(list) THEN Returned(list[number + 1])
                         ELSE Raised("IndexError"))
    ELSE IF Len(list) + number >= 0 THEN Returned(list[Len(list) + number + 1])
    ELSE Raised("IndexError")

Failed(out) == [out |-> out, file |-> None]

\* Lines 199-213: the export file, or the table returned.
table_output(title, header, precinct_results, path) ==
    IF path # None /\ path # <<>>
    THEN [out |-> Returned(None),
          file |-> <<csv_text_row(<<title>>), csv_text_row(header)>>
                   \o [i \in DOMAIN precinct_results |-> csv_precinct_row(precinct_results[i])]]
    ELSE [out |-> Returned(<< <<title>>, header >> \o precinct_results), file |-> None]

table_with_header(title, header, precinct_results, path) ==
    IF header.status = "raised" THEN Failed(header)
    ELSE table_output(title, header.val, precinct_results, path)

\* Lines 192-198, each call in the order of the code.
table_of_parts(title, candidates, precinct_results, path) ==
    IF title.status = "raised" THEN Failed(title)
    ELSE IF candidates.status = "raised" THEN Failed(candidates)
    ELSE IF precinct_results.status # "returned" THEN Failed(precinct_results)
    ELSE table_with_header(title.val, build_header(candidates.val),
                           precinct_results.val, path)

table_of_block(block, path) ==
    IF block.status = "raised" THEN Failed(block)
    ELSE table_of_parts(grab_contest_title(block.val), grab_candidates(block.val),
                        grab_precincts(block.val), path)

table_of_blocks(blocks, number, path) ==
    IF ~number_accepted(number, blocks) THEN Failed(Raised("AssertionError"))
    ELSE table_of_block(list_index(blocks, number), path)

\* The call with the file text, the contest number and the export path: what it
\* returns or raises (out) and the rows of the export file (file; None: none).
table_of(text, number, path) ==
    table_of_blocks(read_canvass_from_text(text), number, path)

gen_election_table ==
    /\ pc = "table"
    /\ \E outcome \in {table_of(report, contest_number, export_filepath)} :
          /\ result' = outcome.out
          /\ export_file' = outcome.file
          /\ pc' = IF outcome.out.status = "returned" THEN "done"
                   ELSE IF outcome.out.status = "raised" THEN "raised" ELSE "hung"
    /\ UNCHANGED <<doc, report, contest_number, export_filepath, contests, k,
                   titles_dict, contest_title, contest, found_first_precinct,
                   contest_cleaned>>

(***************************************************************************)
(* verify_precincts, one loop iteration per step: the loop is entered with *)
(* the block split into lines, k = 0 and contest_cleaned not yet assigned. *)
(***************************************************************************)
\* contest[k] is past the end of the block.
verify_index_error ==
    /\ pc = "scan"
    /\ ~found_first_precinct
    /\ ~HasIndex(contest, k)
    /\ result' = Raised("IndexError")
    /\ pc' = "raised"
    /\ UNCHANGED <<doc, report, contest_number, export_filepath, contests, k,
                   titles_dict, contest_title, contest, found_first_precinct,
                   contest_cleaned, export_file>>

verify_found ==
    /\ pc = "scan"
    /\ ~found_first_precinct
    /\ HasIndex(contest, k)
    /\ PrecinctShape(contest[k + 1])
    /\ found_first_precinct' = TRUE
    /\ contest_cleaned' = Tail_from(contest, k + 1)
    /\ UNCHANGED <<doc, report, contest_number, export_filepath, pc, contests, k,
                   titles_dict, contest_title, contest, result, export_file>>

verify_advance ==
    /\ pc = "scan"
    /\ ~found_first_precinct
    /\ HasIndex(contest, k)
    /\ ~PrecinctShape(contest[k + 1])
    /\ k < PrecinctCeiling
    /\ k' = k + 1
    /\ UNCHANGED <<doc, report, contest_number, export_filepath, pc, contests,
                   titles_dict, contest_title, contest, found_first_precinct,
                   contest_cleaned, result, export_file>>

\* The else branch: the region is set empty and the loop condition stays true.
verify_ceiling ==
    /\ pc = "scan"
    /\ ~found_first_precinct
    /\ HasIndex(contest, k)
    /\ ~PrecinctShape(contest[k + 1])
    /\ ~(k < PrecinctCeiling)
    /\ contest_cleaned' = <<>>
    /\ UNCHANGED <<doc, report, contest_number, export_filepath, pc, contests, k,
                   titles_dict, contest_title, contest, found_first_precinct,
                   result, export_file>>

verify_return ==
    /\ pc = "scan"
    /\ found_first_precinct
    /\ result' = Returned(contest_cleaned)
    /\ pc' = "done"
    /\ UNCHANGED <<doc, report, contest_number, export_filepath, contests, k,
                   titles_dict, contest_title, contest, found_first_precinct,
                   contest_cleaned, export_file>>

(***************************************************************************)
(* display_contests: the contest index, one loop iteration per step.       *)
(***************************************************************************)
\* The body of the for loop for a title t at position n.
index_title(dict, t, n) ==
    IF t \notin DOMAIN dict THEN DictSet(dict, t, n)
    ELSE DictSet(dict, t \o str(n), n)

display_start ==
    /\ pc = "display"
    /\ contests' = read_canvass_from_text(report)
    /\ titles_dict' = EmptyDict
    /\ k' = 1
    /\ pc' = "loop"
    /\ UNCHANGED <<doc, report, contest_number, export_filepath, contest_title,
                   contest, found_first_precinct, contest_cleaned, result, export_file>>

\* grab_contest_title raises, and so does display_contests.
display_title_raises ==
    /\ pc = "loop"
    /\ k < Len(contests)
    /\ grab_contest_title(contests[k + 1]).status = "raised"
    /\ result' = grab_contest_title(contests[k + 1])
    /\ pc' = "raised"
    /\ UNCHANGED <<doc, report, contest_number, export_filepath, contests, k,
                   titles_dict, contest_title, contest, found_first_precinct,
                   contest_cleaned, export_file>>

display_step ==
    /\ pc = "loop"
    /\ k < Len(contests)
    /\ grab_contest_title(contests[k + 1]).status = "returned"
    /\ LET t == grab_contest_title(contests[k + 1]).val
       IN  /\ contest_title' = t
           /\ IF t \in DOMAIN titles_dict /\ t = None
              THEN \* None + str(k)
                   /\ result' = Raised("TypeError")
                   /\ pc' = "raised"
                   /\ UNCHANGED <<titles_dict, k>>
              ELSE /\ titles_dict' = index_title(titles_dict, t, k)
                   /\ k' = k + 1
                   /\ UNCHANGED <<result, pc>>
    /\ UNCHANGED <<doc, report, contest_number, export_filepath, contests,
                   contest, found_first_precinct, contest_cleaned, export_file>>

display_return ==
    /\ pc = "loop"
    /\ ~(k < Len(contests))
    /\ result' = Returned(titles_dict)
    /\ pc' = "done"
    /\ UNCHANGED <<doc, report, contest_number, export_filepath, contests, k,
                   titles_dict, contest_title, contest, found_first_precinct,
                   contest_cleaned, export_file>>

(***************************************************************************)
(* Sample reports.  A report is rendered from a list of blocks, a block    *)
(* from a list of lines: a preamble, then each block after a separator     *)
(* line, every line ended by a line break.                                 *)
(***************************************************************************)
SeqsUpTo(S, n) == UNION {[1..m -> S] : m \in 0..n}

SeqsFromTo(S, lo, hi) == UNION {[1..m -> S] : m \in lo..hi}

JoinLines(lines) == Concat([i \in DOMAIN lines |-> lines[i] \o <<"\n">>])

Preamble == <<"R", "E", "P", "O", "R", "T", "\n">>

SeparatorLine == <<"=", "=", "=", "=", "\n">>

RenderReport(blocks) ==
    Preamble \o Concat([i \in DOMAIN blocks |-> SeparatorLine \o JoinLines(blocks[i])])

NoArguments ==
    /\ contest_number = 0
    /\ export_filepath = None

Idle ==
    /\ contests = <<>>
    /\ k = 0
    /\ titles_dict = EmptyDict
    /\ contest_title = None
    /\ contest = <<>>
    /\ found_first_precinct = FALSE
    /\ contest_cleaned = Unbound
    /\ result = None
    /\ export_file = None

(***************************************************************************)
(* Specification of the segmenter alone: any short report over a separator *)
(* character, a content character and a line break.                        *)
(***************************************************************************)
ReportChars == {"=", "a", "\n"}

InitRead ==
    /\ report \in SeqsUpTo(ReportChars, MaxReportLen)
    /\ doc = report
    /\ pc = "read"
    /\ NoArguments
    /\ Idle

read_canvass ==
    /\ pc = "read"
    /\ result' = Returned(read_canvass_from_text(report))
    /\ pc' = "done"
    /\ UNCHANGED <<doc, report, contest_number, export_filepath, contests, k,
                   titles_dict, contest_title, contest, found_first_precinct,
                   contest_cleaned, export_file>>

NextRead == read_canvass

SpecRead == InitRead /\ [][NextRead]_vars

(***************************************************************************)
(* Specification of display_contests: reports of one block made of any few *)
(* title-region lines, and reports of several well-formed blocks whose     *)
(* titles may repeat.                                                      *)
(***************************************************************************)
TitleLines == {
    <<"V", "o", "t", "e", "s">>,
    <<"M", "A", "Y", "O", "R">>,
    <<" ", " ", "C", "I", "T", "Y">>,
    <<>>,
    <<"V", "o", "t", "e", " ", "F", "o", "r", " ", "N", "o", "t", " ", "M", "o", "r", "e",
      " ", "T", "h", "a", "n", " ", "1">> }

RepeatedTitles == { <<"A">>, <<"A", "3">>, <<"B">> }

TitledBlock(t) ==
    << <<"V", "o", "t", "e", "s">>, t,
       <<"V", "o", "t", "e", " ", "F", "o", "r", " ", "N", "o", "t", " ", "M", "o", "r", "e",
         " ", "T", "h", "a", "n", " ", "1">> >>

IndexDocs ==
    {<<b>> : b \in SeqsUpTo(TitleLines, MaxLines)}
    \cup {[i \in DOMAIN ts |-> TitledBlock(ts[i])] : ts \in SeqsFromTo(RepeatedTitles, 2, MaxContests)}

InitIndex ==
    /\ doc \in IndexDocs
    /\ report = RenderReport(doc)
    /\ pc = "display"
    /\ NoArguments
    /\ Idle

NextIndex ==
    \/ display_start
    \/ display_title_raises
    \/ display_step
    \/ display_return

SpecIndex == InitIndex /\ [][NextIndex]_vars
(***************************************************************************)
(* Specification of verify_precincts: blocks of any few lines, and one     *)
(* block longer than the scan ceiling in which no line is a precinct row.  *)
(***************************************************************************)
VerifyLines == {
    <<"0", "0", "0", "1", " ", "W", "a", "r", "d", " ", " ", "5">>,
    <<"0", "0", "0", "2", " ", "0", "0", "0", "5", " ", "W", "a", "r", "d", " ", " ", "7">>,
    <<"0", "1", " ", "=", " ", "A">>,
    <<>> }

LongBlock == [i \in 1..(PrecinctCeiling + 1) |-> <<>>]

VerifyBlocks == SeqsUpTo(VerifyLines, MaxLines) \cup {LongBlock}

InitVerify ==
    /\ contest \in VerifyBlocks
    /\ doc = Len(contest)
    /\ report = None
    /\ pc = "scan"
    /\ NoArguments
    /\ contests = <<>>
    /\ k = 0
    /\ titles_dict = EmptyDict
    /\ contest_title = None
    /\ found_first_precinct = FALSE
    /\ contest_cleaned = Unbound
    /\ result = None
    /\ export_file = None

NextVerify ==
    \/ verify_index_error
    \/ verify_found
    \/ verify_advance
    \/ verify_ceiling
    \/ verify_return

SpecVerify == InitVerify /\ [][NextVerify]_vars

(***************************************************************************)
(* Specification of gen_election_table.  A sample report is rendered from  *)
(* a list of contests, each with a title, a roster of (index, name)        *)
(* entries and precinct rows; a row gives its identifiers, its name, its   *)
(* vote fields and the numbers of spaces that separate them.               *)
(***************************************************************************)
MarkerLine == <<"V", "o", "t", "e", "s">>

InstructionLine ==
    <<"V", "o", "t", "e", " ", "F", "o", "r", " ", "N", "o", "t", " ", "M", "o", "r", "e",
      " ", "T", "h", "a", "n", " ", "1">>

Blanks(n) == [i \in 1..n |-> " "]

TwoDigits(n) == <<DigitChars[(n \div 10) + 1], DigitChars[(n % 10) + 1]>>

IntVote(n) == [kind |-> "int", n |-> n, text |-> <<>>]

TextVote(t) == [kind |-> "text", n |-> 0, text |-> t]

VoteText(v) == IF v.kind = "int" THEN str(v.n) ELSE v.text

RenderRosterLine(c) == TwoDigits(c.index) \o <<" ", "=", " ">> \o c.name

RenderRow(r) ==
    r.pid \o Blanks(r.idGap)
    \o (IF r.sid = None THEN <<>> ELSE r.sid \o Blanks(r.idGap))
    \o r.name
    \o Concat([i \in DOMAIN r.votes |-> Blanks(r.voteGap) \o VoteText(r.votes[i])])

RenderBlock(b) ==
    <<MarkerLine, b.title, InstructionLine>>
    \o [i \in DOMAIN b.roster |-> RenderRosterLine(b.roster[i])]
    \o [i \in DOMAIN b.rows |-> RenderRow(b.rows[i])]

RenderTableReport(d) == RenderReport([i \in DOMAIN d |-> RenderBlock(d[i])])

\* The name of the roster entry written at position p.
NameAt(p) == <<UpperChars[p], " ", "J", "r", ".">>

Entry(index, p) == [index |-> index, name |-> NameAt(p)]

Ward == [pid |-> <<"0", "0", "0", "1">>, sid |-> None, name |-> <<"W", "a", "r", "d">>]

PrecinctTwo == [pid |-> <<"0", "0", "0", "2">>, sid |-> <<"0", "0", "0", "5">>,
                name |-> <<"P", "r", "e", "c", "i", "n", "c", "t", " ", "T", "w", "o">>]

Row(p, votes, idGap, voteGap) ==
    [pid |-> p.pid, sid |-> p.sid, name |-> p.name, votes |-> votes,
     idGap |-> idGap, voteGap |-> voteGap]

VoteLists == { <<IntVote(50), IntVote(40)>>, <<IntVote(7)>>,
               <<IntVote(100), TextVote(<<"x">>)>> }

\* The spacings: single spaces inside the first field and wider gaps before the
\* votes; single spaces everywhere; wider gaps everywhere.
Gaps == { <<1, 3>>, <<1, 1>>, <<3, 3>> }

\* Every vote list with the first spacing, and a list of integers with each spacing.
SampleRows ==
    {Row(p, v, 1, 3) : p \in {Ward, PrecinctTwo}, v \in VoteLists}
    \cup {Row(p, <<IntVote(50), IntVote(40)>>, g[1], g[2]) : p \in {Ward, PrecinctTwo}, g \in Gaps}

GoodRow == Row(Ward, <<IntVote(50), IntVote(40)>>, 1, 3)

Senate == <<"S", "E", "N", "A", "T", "E">>

Mayor == <<"M", "A", "Y", "O", "R">>

FullRoster == <<Entry(1, 1), Entry(2, 2)>>

ExportPath == <<"o", "u", "t", ".", "c", "s", "v">>

\* One contest with a two-candidate roster and any few sample rows.
RowsDocs ==
    {<<[title |-> Senate, roster |-> FullRoster, rows |-> rows]>> :
        rows \in SeqsUpTo(SampleRows, MaxRows)}

\* One contest with one good row and any few roster entries, indices from 0 on.
RosterDocs ==
    {<<[title |-> Senate,
        roster |-> [p \in DOMAIN indices |-> Entry(indices[p], p)],
        rows |-> <<GoodRow>>]>> :
        indices \in SeqsUpTo(0..MaxRoster, MaxRoster)}

\* Several well-formed contests with different titles.
NumberDocs ==
    {[i \in DOMAIN titles |->
        [title |-> titles[i], roster |-> <<Entry(1, i), Entry(2, i + 1)>>,
         rows |-> <<GoodRow>>]] :
        titles \in SeqsFromTo({Senate, Mayor}, 1, MaxContests)}

TableInputs ==
    {[doc |-> d, number |-> 1, path |-> f] :
        d \in RowsDocs \cup RosterDocs, f \in {None, ExportPath}}
    \cup {[doc |-> d, number |-> n, path |-> f] :
            d \in NumberDocs, n \in (0 - MaxContests - 2)..(MaxContests + 2),
            f \in {None, ExportPath}}

InitTable ==
    /\ \E input \in TableInputs :
          /\ doc = input.doc
          /\ report = RenderTableReport(input.doc)
          /\ contest_number = input.number
          /\ export_filepath = input.path
    /\ pc = "table"
    /\ Idle

NextTable == gen_election_table

SpecTable == InitTable /\ [][NextTable]_vars

(***************************************************************************)
(* Properties of the segmenter (SpecRead).                                 *)
(***************************************************************************)
\* Position i of s lies in a run of two or more "=".
InSeparatorRun(s, i) ==
    /\ s[i] = "="
    /\ \/ i > 1 /\ s[i - 1] = "="
       \/ i < Len(s) /\ s[i + 1] = "="

\* The number of maximal runs of two or more "=" in s.
SeparatorRuns(s) ==
    Cardinality({i \in DOMAIN s : InSeparatorRun(s, i) /\ (i = 1 \/ s[i - 1] # "=")})

\* s with the characters of its separator runs removed.
WithoutSeparatorRuns(s) ==
    LET kept == {i \in DOMAIN s : ~InSeparatorRun(s, i)}
    IN  [n \in 1..Cardinality(kept) |->
            s[CHOOSE i \in kept : Cardinality({j \in kept : j <= i}) = n]]

EndsWithSeparatorRun(s) == s # <<>> /\ InSeparatorRun(s, Len(s))

\* C7 as stated: a report with N separator runs always yields N+1 blocks whose
\* concatenation is the report without its separator runs, and a report without a
\* separator run, the empty report included, yields the one-element sequence
\* holding the whole text.
C7_AlwaysOneMoreBlock ==
    pc = "done" =>
        /\ Len(result.val) = SeparatorRuns(report) + 1
        /\ Concat(result.val) = WithoutSeparatorRuns(report)
        /\ SeparatorRuns(report) = 0 => result.val = <<report>>

\* C7 amended: the blocks are returned in document order and their concatenation is
\* the report without its separator runs; there are N+1 of them, or N when the
\* report is empty or ends with a separator run (the empty final block is
\* dropped); a non-empty report without a separator run yields the one-element
\* sequence holding the whole text, and the empty report yields no block.
C7_BlocksOfReport ==
    pc = "done" =>
        /\ Len(result.val) = IF report = <<>> \/ EndsWithSeparatorRun(report)
                             THEN SeparatorRuns(report)
                             ELSE SeparatorRuns(report) + 1
        /\ Concat(result.val) = WithoutSeparatorRuns(report)
        /\ \A i \in DOMAIN result.val : SeparatorRuns(result.val[i]) = 0
        /\ (SeparatorRuns(report) = 0 /\ report # <<>>) => result.val = <<report>>
        /\ report = <<>> => result.val = <<>>

\* A report with two separator runs, the second one at its end, has been segmented.
C7_Witness ==
    /\ pc = "done"
    /\ SeparatorRuns(report) = 2
    /\ EndsWithSeparatorRun(report)
    /\ Len(result.val) = 2
    /\ result.val[2] # <<>>

(***************************************************************************)
(* Properties of display_contests (SpecIndex).                             *)
(***************************************************************************)
\* C1: display_contests never overwrites an entry: a key of the mapping keeps the
\* contest number it was first given through every later iteration.
C1_NeverOverwrites ==
    [][\A key \in DOMAIN titles_dict :
          key \in DOMAIN titles_dict' /\ titles_dict'[key] = titles_dict[key]]_vars

\* The lines of the block the last completed iteration read.
LastBlockLines == splitlines(contests[k])

MarkerLines(lines) == {m \in DOMAIN lines : Contains(MarkerText, upper(lines[m]))}

Trimmed(s) == lstrip(rstrip(s))

NoEdgeSpace(s) == s = <<>> \/ (~IsSpace(s[1]) /\ ~IsSpace(s[Len(s)]))

\* C8: when the line two rows below the first marker line holds no "vote for not
\* more", the title is the line after the marker and the line two rows below it
\* joined by exactly one space, with no leading and no trailing whitespace,
\* whatever the two lines hold.
C8_WrappedTitleTrimmed ==
    (pc = "loop" /\ k >= 2 /\ MarkerLines(LastBlockLines) # {}) =>
        LET lines == LastBlockLines
            m == Min(MarkerLines(lines))
        IN  (m + 2 <= Len(lines) /\ ~Contains(InstructionText, lower(lines[m + 2]))) =>
                /\ contest_title = Trimmed(lines[m + 1]) \o <<" ">> \o Trimmed(lines[m + 2])
                /\ NoEdgeSpace(contest_title)

\* C9: grab_contest_title never raises, so display_contests completes on every
\* report, and a block without a marker line gets the absent title.
C9_TitleNeverRaises ==
    /\ pc # "raised"
    /\ (pc = "loop" /\ k >= 2 /\ MarkerLines(LastBlockLines) = {}) => contest_title = None
(***************************************************************************)
(* Properties of gen_election_table (SpecTable).                           *)
(***************************************************************************)
Called == pc # "table"

\* The table that was built: the rows of the export file, or the table returned.
BuiltTable == IF export_file # None THEN export_file ELSE result.val

Header == BuiltTable[2]

DataRows == SubSeq(BuiltTable, 3, Len(BuiltTable))

Blocks == read_canvass_from_text(report)

\* C2: the call fails, with no table and no export file, for every contest number
\* that is no position 0..len(blocks)-1 of the segmenter's output, negative
\* numbers included.
C2_OutOfRangeFails ==
    (Called /\ contest_number \notin 0..(Len(Blocks) - 1)) =>
        (result.status = "raised" /\ export_file = None)

\* C3: in every table built, each precinct row has exactly as many vote counts
\* after its three leading fields as the header has candidates after its three
\* identifier columns.
C3_VotesMatchRoster ==
    pc = "done" => \A i \in DOMAIN DataRows : Len(DataRows[i]) = Len(Header)

\* The block the call selected, when the contest number passed the assertion and
\* the indexing.
Selected == list_index(Blocks, contest_number)

\* The call reached the building of the header: the number was accepted and the
\* title, the roster and the precinct rows were extracted.
HeaderReachedFrom(block) ==
    /\ block.status = "returned"
    /\ grab_contest_title(block.val).status = "returned"
    /\ grab_candidates(block.val).status = "returned"
    /\ grab_precincts(block.val).status = "returned"

HeaderReached ==
    /\ Called
    /\ number_accepted(contest_number, Blocks)
    /\ HeaderReachedFrom(Selected)

\* The contest of the sample the selected block was rendered from (there is one
\* when the header was reached: block 0 is the preamble, which has no title).
SelectedContest ==
    IF contest_number >= 1 THEN doc[contest_number] ELSE doc[Len(doc) + 1 + contest_number]

RosterIndices(b) == {b.roster[p].index : p \in DOMAIN b.roster}

Max(S) == CHOOSE x \in S : \A y \in S : y <= x

\* The name the roster gives index n: the one written last.
RosterName(b, n) == b.roster[Max({p \in DOMAIN b.roster : b.roster[p].index = n})].name

\* C4: the header is built if and only if the indices grab_candidates found are
\* exactly 1..M: then it is the three identifier columns followed by the M names
\* in index order; with any gap the call raises a KeyError and no header, table
\* or export file is produced.
C4_HeaderIffContiguous ==
    HeaderReached =>
        LET found == DOMAIN grab_candidates(Selected.val).val
            roster == RosterIndices(SelectedContest)
            M == Cardinality(roster)
        IN  /\ found = roster
            /\ IF roster = 1..M
               THEN /\ pc = "done"
                    /\ Header = IdColumns \o [n \in 1..M |-> RosterName(SelectedContest, n)]
               ELSE /\ result = Raised("KeyError")
                    /\ export_file = None

\* A roster with a gap (indices 1 and 3) reached the header and the call raised.
C4_Witness ==
    /\ HeaderReached
    /\ RosterIndices(SelectedContest) = {1, 3}
    /\ result = Raised("KeyError")

\* The row the sample line r stands for: its identifiers (None for a missing
\* second one), its name and its votes as integers.
ExpectedRow(r) == <<r.pid, r.sid, r.name>> \o [i \in DOMAIN r.votes |-> r.votes[i].n]

ExpectedRows(b) ==
    IF export_file # None
    THEN [i \in DOMAIN b.rows |-> csv_precinct_row(ExpectedRow(b.rows[i]))]
    ELSE [i \in DOMAIN b.rows |-> ExpectedRow(b.rows[i])]

\* A contest of the sample with a contiguous roster and at least one precinct
\* line, every vote of which is an integer, was asked for by its position.
IntegerRowsAsked ==
    /\ Called
    /\ contest_number \in 1..Len(doc)
    /\ LET b == doc[contest_number]
       IN  /\ RosterIndices(b) = 1..Cardinality(RosterIndices(b))
           /\ b.rows # <<>>
           /\ \A i \in DOMAIN b.rows : \A j \in DOMAIN b.rows[i].votes :
                 b.rows[i].votes[j].kind = "int"

\* C5 as stated: whatever the numbers of spaces (one or more) that separate the
\* parts of the precinct lines, the table has one data row per line, in document
\* order, with the identifiers, the name and the integer votes of the line.
C5_AnySpacingParsed ==
    IntegerRowsAsked =>
        (pc = "done" /\ DataRows = ExpectedRows(doc[contest_number]))

\* C5 amended: when the identifiers and the name are separated by single spaces
\* and every vote is preceded by two or more spaces, the table has one data row
\* per line, in document order, with the identifiers, the name and the integer
\* votes of the line.
C5_AlignedRowsParsed ==
    (/\ IntegerRowsAsked
     /\ \A i \in DOMAIN doc[contest_number].rows :
           /\ doc[contest_number].rows[i].idGap = 1
           /\ doc[contest_number].rows[i].voteGap >= 2) =>
        (pc = "done" /\ DataRows = ExpectedRows(doc[contest_number]))

\* Two different aligned lines, the second with two identifiers, were exported.
C5_Witness ==
    /\ IntegerRowsAsked
    /\ pc = "done"
    /\ export_file # None
    /\ Len(doc[contest_number].rows) = 2
    /\ doc[contest_number].rows[1].sid = None
    /\ doc[contest_number].rows[2].sid # None
    /\ Len(DataRows) = 2
    /\ DataRows[2] = <<PrecinctTwo.pid, PrecinctTwo.sid, PrecinctTwo.name,
                       <<"5", "0">>, <<"4", "0">> >>

\* Some field after the first of some line of the precinct region of the selected
\* block is no integer.
MalformedField(fields) == \E n \in 2..Len(fields) : int(fields[n]).status = "raised"

MalformedLine(region) ==
    /\ region.status = "returned"
    /\ \E line \in Range(region.val) : MalformedField(re_split("\\s{2,}", line))

MalformedRegion(block) ==
    /\ block.status = "returned"
    /\ MalformedLine(verify_precincts(block.val))

MalformedVoteField ==
    /\ Called
    /\ number_accepted(contest_number, Blocks)
    /\ MalformedRegion(Selected)

\* C6: if any vote field of the precinct region is no integer, the call fails:
\* no table is returned, no export file is written and no value stands in for
\* the field.
C6_MalformedVoteFails ==
    MalformedVoteField => (result.status = "raised" /\ export_file = None)

\* A call with an export path met a vote field that is no integer, after the
\* title and the roster were read, and raised the ValueError.
C6_Witness ==
    /\ MalformedVoteField
    /\ export_filepath # None
    /\ grab_contest_title(Selected.val).status = "returned"
    /\ grab_candidates(Selected.val).status = "returned"
    /\ result = Raised("ValueError")

(***************************************************************************)
(* Properties of verify_precincts (SpecVerify).                            *)
(***************************************************************************)
ShapedLines == {n \in DOMAIN contest : PrecinctShape(contest[n])}

\* C10: the scan always ends and fails safe: without a line of the precinct-row
\* shape it neither raises nor goes on after the ceiling but returns the empty
\* sequence, and with one it returns the lines from the first such line on.
C10_ScanFailsSafe ==
    /\ pc # "raised"
    /\ ~(pc = "scan" /\ contest_cleaned = <<>> /\ ~found_first_precinct)
    /\ (pc = "done" /\ ShapedLines = {}) => result = Returned(<<>>)
    /\ (pc = "done" /\ ShapedLines # {}) =>
           result = Returned(Tail_from(contest, Min(ShapedLines)))
====
